---- MODULE Spec2Model ----
(***************************************************************************)
(* Turn-taking engine of the voice interview component                     *)
(* (frontend/src/components/InterviewSession.jsx, lines 1-360, and the     *)
(* App component that mounts it, lines 661-717).  The useCallback-based    *)
(* variant of the component (unnamed/part_000, lines 223-489) is modelled  *)
(* beside it, in the variable variant and under VariantSpec.               *)
(*                                                                         *)
(* Every JavaScript callback (timer, DOM event, promise continuation) is   *)
(* one atomic action: the event loop runs a callback to its next await.    *)
(* Time advances in one-second steps (Tick); a timer whose delay has run   *)
(* out fires before the next step.  Strings are sequences of characters.   *)
(***************************************************************************)
EXTENDS Integers, Sequences, FiniteSets, TLC

\* ------------------------------------------------------------------ bounds
\* Countdown length in ticks (MAX_RECORD_SECONDS is 120 in the source; the
\* code only compares the counter with 1, so the countdown is shortened).
MAX_RECORD_SECONDS == 3
\* Silence delay in ticks (SILENCE_TIMEOUT_MS / 1000 is 12 in the source).
SILENCE_TICKS == 2
\* Delay of the false-start restart in ticks (2000 ms in the source).
RESTART_TICKS == 1
\* Recognition objects that exist at once.
MaxConns == 2
\* submitAnswer requests issued in one run.
MaxRequests == 2
\* Delayed false-start restarts pending at once.
MaxRestarts == 2
\* Finalized results one listening closure accumulates.
MaxFinals == 1

\* ------------------------------------------------------- program constants
TOTAL_QUESTIONS == 5

\* --------------------------------------------------------------- alphabets
Frags      == {<<"a">>}                   \* result[0].transcript values
ErrorCodes == {"aborted", "no-speech", "network"}
ConnIds    == 1..MaxConns
NoConn     == 0                           \* recognitionRef.current = null
DeadConn   == -1                          \* a reference to an ended object
Null       == -1                          \* a timer reference that is null
sessionId     == "sid"
firstQuestion == 1

VARIABLES
  hasSR,               \* window.SpeechRecognition || webkitSpeechRecognition
  hasSynth,            \* window.speechSynthesis
  mounted,             \* the component is mounted (cancelled = ~mounted)
  initPending,         \* the 500 ms timeout of init is pending
  status,              \* React state: speaking | recording | processing | idle
  error,               \* React state, as a tag; "" is no message
  timer,               \* React state: remaining seconds
  recognitionRef,      \* id of the current recognition object
  timerIntervalRef,    \* Null, or ticks until the interval fires (0: due)
  silenceTimeoutRef,   \* Null, or ticks until the timeout fires (0: due)
  transcriptRef,
  isSubmittingRef,
  shouldListenRef,
  currentQuestionRef,
  previousQuestionsRef,
  previousAnswersRef,
  questionNumberRef,
  conns,               \* recognition objects: [st, ft], ft the closure's finalTranscript
  restarts,            \* pending false-start timeouts: ticks remaining, oldest first
  requests,            \* submitAnswer calls awaiting their response, oldest first
  utterances,          \* speakQuestion promises not yet resolved
  synthSpeaking,       \* window.speechSynthesis.speaking
  completeCalls,       \* payloads onComplete was called with, in order
  phase,               \* App state: interview | report
  finalReport,         \* App state
  succeeded,           \* history: (question, answer) of every next-question response
  finalReceived,       \* history: final_report payloads received
  heardFinals,         \* history: finalized fragments delivered in this listening phase
  heardInterim,        \* history: interim portion of its latest result event
  issued,              \* history: number of submitAnswer requests issued
  listenAge,           \* history: ticks since startListeningFn, while mounted and listening
  heardText,           \* history: the transcript as the latest result event of this
                       \* listening phase left it
  sinceHeard,          \* history: ticks of listening since the latest result event (since
                       \* the start of the phase, or since the silence timeout last found
                       \* the driver speaking, if that is later)
  teardown,            \* history: the calls that stop things (abort, clearInterval,
                       \* clearTimeout, speechSynthesis.cancel) made by the callback
                       \* that ran last, in the order it made them
  last,                \* history: the callback that ran last, if it is a recorded one
  variant              \* the state of the useCallback-based variant of the component
                       \* (unnamed/part_000, lines 232-439); untouched by the session

sessionVars ==
        << hasSR, hasSynth, mounted, initPending, status, error, timer,
           recognitionRef, timerIntervalRef, silenceTimeoutRef, transcriptRef,
           isSubmittingRef, shouldListenRef, currentQuestionRef,
           previousQuestionsRef, previousAnswersRef, questionNumberRef,
           conns, restarts, requests, utterances, synthSpeaking,
           completeCalls, phase, finalReport, succeeded, finalReceived,
           heardFinals, heardInterim, heardText, issued, listenAge,
           sinceHeard, teardown, last >>

vars == << sessionVars, variant >>

\* The current state as one record, so that handlers compose as functions.
\* A callback starts with no stopping call made yet.
Cur ==
  [ hasSR |-> hasSR, hasSynth |-> hasSynth, mounted |-> mounted,
    initPending |-> initPending, status |-> status, error |-> error,
    timer |-> timer, recognitionRef |-> recognitionRef,
    timerIntervalRef |-> timerIntervalRef,
    silenceTimeoutRef |-> silenceTimeoutRef, transcriptRef |-> transcriptRef,
    isSubmittingRef |-> isSubmittingRef, shouldListenRef |-> shouldListenRef,
    currentQuestionRef |-> currentQuestionRef,
    previousQuestionsRef |-> previousQuestionsRef,
    previousAnswersRef |-> previousAnswersRef,
    questionNumberRef |-> questionNumberRef, conns |-> conns,
    restarts |-> restarts, requests |-> requests, utterances |-> utterances,
    synthSpeaking |-> synthSpeaking, completeCalls |-> completeCalls,
    phase |-> phase, finalReport |-> finalReport, succeeded |-> succeeded,
    finalReceived |-> finalReceived, heardFinals |-> heardFinals,
    heardInterim |-> heardInterim, issued |-> issued,
    heardText |-> heardText, listenAge |-> listenAge,
    sinceHeard |-> sinceHeard, teardown |-> <<>>, last |-> last ]

Apply(s) ==
  /\ hasSR' = s.hasSR
  /\ hasSynth' = s.hasSynth
  /\ mounted' = s.mounted
  /\ initPending' = s.initPending
  /\ status' = s.status
  /\ error' = s.error
  /\ timer' = s.timer
  /\ recognitionRef' = s.recognitionRef
  /\ timerIntervalRef' = s.timerIntervalRef
  /\ silenceTimeoutRef' = s.silenceTimeoutRef
  /\ transcriptRef' = s.transcriptRef
  /\ isSubmittingRef' = s.isSubmittingRef
  /\ shouldListenRef' = s.shouldListenRef
  /\ currentQuestionRef' = s.currentQuestionRef
  /\ previousQuestionsRef' = s.previousQuestionsRef
  /\ previousAnswersRef' = s.previousAnswersRef
  /\ questionNumberRef' = s.questionNumberRef
  /\ conns' = s.conns
  /\ restarts' = s.restarts
  /\ requests' = s.requests
  /\ utterances' = s.utterances
  /\ synthSpeaking' = s.synthSpeaking
  /\ completeCalls' = s.completeCalls
  /\ phase' = s.phase
  /\ finalReport' = s.finalReport
  /\ succeeded' = s.succeeded
  /\ finalReceived' = s.finalReceived
  /\ heardFinals' = s.heardFinals
  /\ heardInterim' = s.heardInterim
  /\ issued' = s.issued
  /\ heardText' = s.heardText
  /\ listenAge' = s.listenAge
  /\ sinceHeard' = s.sinceHeard
  /\ teardown' = s.teardown
  /\ last' = s.last
  /\ variant' = variant

\* The callbacks whose run the history variable last records.
Recorded ==
  {"SilenceDeferred", "SilenceSubmit", "Ceiling", "OnEndRestart", "UtteranceCancelled"}

\* The step of the callback named tag, which leaves the state s (s is worked
\* out once, as the one element of a set).
Do(s, tag) ==
  \E r \in {[s EXCEPT !.last = IF tag \in Recorded THEN tag ELSE "other"]} : Apply(r)

\* ----------------------------------------------------------------- strings
RECURSIVE TrimStart(_)
TrimStart(str) ==
  IF str # <<>> /\ Head(str) = " " THEN TrimStart(Tail(str)) ELSE str

RECURSIVE TrimEnd(_)
TrimEnd(str) ==
  IF str # <<>> /\ str[Len(str)] = " "
    THEN TrimEnd(SubSeq(str, 1, Len(str) - 1))
    ELSE str

\* String.prototype.trim
Trim(str) == TrimEnd(TrimStart(str))

RemoveAt(seq, i) == SubSeq(seq, 1, i - 1) \o SubSeq(seq, i + 1, Len(seq))

\* ------------------------------------------------------- React state setters
\* A state update of an unmounted component is dropped.
setStatus(s, v) == IF s.mounted THEN [s EXCEPT !.status = v] ELSE s
setError(s, v)  == IF s.mounted THEN [s EXCEPT !.error = v] ELSE s
setTimer(s, v)  == IF s.mounted THEN [s EXCEPT !.timer = v] ELSE s

\* ------------------------------------------------------ recognition objects
FreeSlot == [st |-> "free", ft |-> <<>>]

HasFreeConn(s) == \E c \in ConnIds : s.conns[c].st = "free"

FreeConn(cs) ==
  CHOOSE c \in ConnIds :
    /\ cs[c].st = "free"
    /\ \A d \in ConnIds : cs[d].st = "free" => c <= d

\* SpeechRecognition.abort(): the object stops delivering results; its end
\* event is delivered later.
abort(cs, c) ==
  IF c \in ConnIds /\ cs[c].st = "live"
    THEN [cs EXCEPT ![c].st = "aborted"]
    ELSE cs

LiveConns(s) == {c \in ConnIds : s.conns[c].st = "live"}

\* ------------------------------------------------------------ cleanupRecording
cleanupRecording(s) ==
  [s EXCEPT !.shouldListenRef = FALSE,
            !.conns = abort(@, s.recognitionRef),
            !.recognitionRef = NoConn,
            !.timerIntervalRef = Null,
            !.silenceTimeoutRef = Null,
            !.heardFinals = <<>>,
            !.heardInterim = <<>>,
            !.heardText = <<>>,
            !.listenAge = 0,
            !.sinceHeard = 0,
            !.teardown = @ \o (IF s.recognitionRef # NoConn THEN <<"abort">> ELSE <<>>)
                           \o (IF s.timerIntervalRef # Null THEN <<"clearInterval">> ELSE <<>>)
                           \o (IF s.silenceTimeoutRef # Null THEN <<"clearTimeout">> ELSE <<>>)]

\* ------------------------------------------------------------ startListeningFn
\* startListeningFn without the capability test of lines 156-160
startListeningFnUnchecked(s) ==
  LET s1 == cleanupRecording(s)
      c  == FreeConn(s1.conns)
      s2 == setTimer(setError([s1 EXCEPT !.transcriptRef = <<>>], ""),
                     MAX_RECORD_SECONDS)
      s3 == [s2 EXCEPT !.isSubmittingRef = FALSE,
                       !.shouldListenRef = TRUE,
                       !.conns[c] = [st |-> "live", ft |-> <<>>],
                       !.recognitionRef = c]
      s4 == setStatus(s3, "recording")
  IN  [s4 EXCEPT !.silenceTimeoutRef = SILENCE_TICKS,
                 !.timerIntervalRef = 1]

startListeningFn(s) ==
  IF ~s.hasSR
    THEN setError(s, "NotSupported")
    ELSE
      LET s1 == cleanupRecording(s)
          c  == FreeConn(s1.conns)
          s2 == setTimer(setError([s1 EXCEPT !.transcriptRef = <<>>], ""),
                         MAX_RECORD_SECONDS)
          s3 == [s2 EXCEPT !.isSubmittingRef = FALSE,
                           !.shouldListenRef = TRUE,
                           !.conns[c] = [st |-> "live", ft |-> <<>>],
                           !.recognitionRef = c]
          s4 == setStatus(s3, "recording")
      IN  [s4 EXCEPT !.silenceTimeoutRef = SILENCE_TICKS,
                     !.timerIntervalRef = 1]

\* -------------------------------------------------------------------- doSubmit
\* doSubmit without the empty-transcript branch of lines 86-95
doSubmitEmptyAnswer(s) ==
  IF s.isSubmittingRef
    THEN s
    ELSE
      LET s1 == cleanupRecording([s EXCEPT !.isSubmittingRef = TRUE])
          s2 == setError(setStatus(s1, "processing"), "")
      IN  [s2 EXCEPT !.requests = Append(@,
             [ session_id         |-> sessionId,
               current_question   |-> s.currentQuestionRef,
               current_answer     |-> Trim(s.transcriptRef),
               previous_questions |-> s.previousQuestionsRef,
               previous_answers   |-> s.previousAnswersRef ]),
                     !.issued = @ + 1]

\* doSubmit up to its first await.
doSubmit(s) ==
  IF s.isSubmittingRef
    THEN s
    ELSE
      LET answer == Trim(s.transcriptRef) IN
      IF answer = <<>>
        THEN
          LET s1 == cleanupRecording(setError(s, "NoSpeech"))
          IN  [s1 EXCEPT !.restarts = Append(@, RESTART_TICKS)]
        ELSE
          LET s1 == cleanupRecording([s EXCEPT !.isSubmittingRef = TRUE])
              s2 == setError(setStatus(s1, "processing"), "")
          IN  [s2 EXCEPT !.requests = Append(@,
                 [ session_id         |-> sessionId,
                   current_question   |-> s.currentQuestionRef,
                   current_answer     |-> answer,
                   previous_questions |-> s.previousQuestionsRef,
                   previous_answers   |-> s.previousAnswersRef ]),
                         !.issued = @ + 1]

\* The caps on pending restarts and on issued requests: a call of doSubmit
\* that would exceed one of them does not happen.
CanSubmit(s) ==
  \/ s.isSubmittingRef
  \/ /\ Trim(s.transcriptRef) = <<>>
     /\ Len(s.restarts) < MaxRestarts
  \/ /\ Trim(s.transcriptRef) # <<>>
     /\ s.issued < MaxRequests

\* ------------------------------------------------------------------ onComplete
\* App.handleInterviewComplete
handleInterviewComplete(s, report) ==
  [s EXCEPT !.completeCalls = Append(@, report),
            !.finalReport = report,
            !.phase = "report"]

\* --------------------------------------------------------------- speakQuestion
\* the continuations without the test of cancelled in init (line 265)
ContinueUncancelled(s, k) ==
  CASE k.kind = "init"  -> startListeningFn(s)
    [] k.kind = "next"  -> startListeningFn(s)
    [] k.kind = "final" ->
         [handleInterviewComplete(s, k.report) EXCEPT !.isSubmittingRef = FALSE]

\* What runs when the promise of speakQuestion resolves.
Continue(s, k) ==
  CASE k.kind = "init"  -> IF ~s.mounted THEN s ELSE startListeningFn(s)
    [] k.kind = "next"  -> startListeningFn(s)
    [] k.kind = "final" ->
         [handleInterviewComplete(s, k.report) EXCEPT !.isSubmittingRef = FALSE]

\* speechSynthesis.cancel(): every utterance not yet ended is dropped; its
\* error (or end) event is delivered later.
cancelSpeech(us) ==
  [i \in 1..Len(us) |-> [us[i] EXCEPT !.st = "cancelled"]]

\* speakQuestion whose promise stays pending without speechSynthesis (line 42
\* without resolve())
speakQuestionNeverResolves(s, k) ==
  IF ~s.hasSynth
    THEN s
    ELSE [s EXCEPT !.utterances =
                      Append(cancelSpeech(@), [kind |-> k.kind, report |-> k.report, st |-> "active"]),
                   !.synthSpeaking = TRUE,
                   !.teardown = Append(@, "cancel")]

\* speakQuestion without the cancel() of line 43
speakQuestionNoCancel(s, k) ==
  IF ~s.hasSynth
    THEN Continue(s, k)
    ELSE [s EXCEPT !.utterances =
                      Append(@, [kind |-> k.kind, report |-> k.report, st |-> "active"]),
                   !.synthSpeaking = TRUE]

\* speakQuestion(text) followed by the code after "await speakQuestion(text)".
\* Without speechSynthesis the promise is already resolved and the
\* continuation runs as a microtask, before any other callback.
speakQuestion(s, k) ==
  IF ~s.hasSynth
    THEN Continue(s, k)
    ELSE [s EXCEPT !.utterances =
                      Append(cancelSpeech(@), [kind |-> k.kind, report |-> k.report, st |-> "active"]),
                   !.synthSpeaking = TRUE,
                   !.teardown = Append(@, "cancel")]

NeedsConn(s, k) ==
  /\ s.hasSR
  /\ k.kind = "next" \/ (k.kind = "init" /\ s.mounted)

InitK  == [kind |-> "init", report |-> <<>>]
NextK  == [kind |-> "next", report |-> <<>>]
FinalK(report) == [kind |-> "final", report |-> report]

\* --------------------------------------------------------- recognition events
Results == [isFinal : BOOLEAN, transcript : Frags]
\* event.results from event.resultIndex on
Events  == {<<r>> : r \in Results}

RECURSIVE FinalText(_)
\* What the loop of onresult adds to finalTranscript.
FinalText(ev) ==
  IF ev = <<>> THEN <<>>
  ELSE (IF Head(ev).isFinal THEN Head(ev).transcript \o <<" ">> ELSE <<>>)
       \o FinalText(Tail(ev))

RECURSIVE InterimText(_)
\* What the loop of onresult collects in interim.
InterimText(ev) ==
  IF ev = <<>> THEN <<>>
  ELSE (IF Head(ev).isFinal THEN <<>> ELSE Head(ev).transcript)
       \o InterimText(Tail(ev))

RECURSIVE FinalFrags(_)
\* The finalized fragments of an event, in order.
FinalFrags(ev) ==
  IF ev = <<>> THEN <<>>
  ELSE (IF Head(ev).isFinal THEN <<Head(ev).transcript>> ELSE <<>>)
       \o FinalFrags(Tail(ev))

\* resetSilenceTimer
resetSilenceTimer(s) == [s EXCEPT !.silenceTimeoutRef = SILENCE_TICKS]

\* an onresult that leaves the silence timeout running (line 208 missing)
onresultNoRearm(s, c, ev) ==
  LET finalTranscript == s.conns[c].ft \o FinalText(ev)
      full == finalTranscript \o InterimText(ev)
  IN  [s EXCEPT !.conns[c].ft = finalTranscript,
                !.transcriptRef = full,
                !.heardFinals = IF s.shouldListenRef THEN @ \o FinalFrags(ev) ELSE @,
                !.heardInterim = IF s.shouldListenRef THEN InterimText(ev) ELSE @,
                !.heardText = IF s.shouldListenRef THEN full ELSE @,
                !.sinceHeard = 0]

\* an onresult that also puts the countdown back to its full duration
onresultRefills(s, c, ev) ==
  LET finalTranscript == s.conns[c].ft \o FinalText(ev)
      full == finalTranscript \o InterimText(ev)
  IN  setTimer(resetSilenceTimer(
        [s EXCEPT !.conns[c].ft = finalTranscript,
                  !.transcriptRef = full,
                  !.heardFinals = IF s.shouldListenRef THEN @ \o FinalFrags(ev) ELSE @,
                  !.heardInterim = IF s.shouldListenRef THEN InterimText(ev) ELSE @,
                  !.heardText = IF s.shouldListenRef THEN full ELSE @,
                  !.sinceHeard = 0]), MAX_RECORD_SECONDS)

\* recognition.onresult, for the object c
onresult(s, c, ev) ==
  LET finalTranscript == s.conns[c].ft \o FinalText(ev)
      full == finalTranscript \o InterimText(ev)
  IN  resetSilenceTimer(
        [s EXCEPT !.conns[c].ft = finalTranscript,
                  !.transcriptRef = full,
                  !.heardFinals = IF s.shouldListenRef THEN @ \o FinalFrags(ev) ELSE @,
                  !.heardInterim = IF s.shouldListenRef THEN InterimText(ev) ELSE @,
                  !.heardText = IF s.shouldListenRef THEN full ELSE @,
                  !.sinceHeard = 0])

\* an onerror that gives up listening on every error it reports
onerrorStopsListening(s, code) ==
  IF code # "aborted" /\ code # "no-speech"
    THEN cleanupRecording(setError(s, "SpeechError"))
    ELSE s

\* recognition.onerror
onerror(s, code) ==
  IF code # "aborted" /\ code # "no-speech"
    THEN setError(s, "SpeechError")
    ELSE s

\* onend without the restart of lines 219-231: every end is taken as intended
onendNoRestart(s, c) ==
  [s EXCEPT !.conns[c] = FreeSlot,
            !.recognitionRef = IF @ = c THEN DeadConn ELSE @]

\* an onend whose fresh object gets handlers of its own, with an empty
\* finalTranscript
onendFreshClosure(s, c) ==
  IF s.shouldListenRef /\ ~s.isSubmittingRef
    THEN [s EXCEPT !.conns[c] = [st |-> "live", ft |-> <<>>],
                   !.recognitionRef = c]
    ELSE [s EXCEPT !.conns[c] = FreeSlot,
                   !.recognitionRef = IF @ = c THEN DeadConn ELSE @]

\* recognition.onend, for the object c.  The fresh object takes the place of
\* the ended one: it has the same handlers, hence the same closure and the
\* same finalTranscript.
onend(s, c) ==
  IF s.shouldListenRef /\ ~s.isSubmittingRef
    THEN [s EXCEPT !.conns[c] = [st |-> "live", ft |-> s.conns[c].ft],
                   !.recognitionRef = c]
    ELSE [s EXCEPT !.conns[c] = FreeSlot,
                   !.recognitionRef = IF @ = c THEN DeadConn ELSE @]

\* ------------------------------------------------------------------- the service
\* The service is opaque: it may answer any request with the next question,
\* with the final report, or fail.
NextQuestions(r)  == {r.current_question + 1}
QuestionCounts(r) == {Len(r.previous_questions) + 1}
\* The report names the last answer it scored.
Reports(r)        == {<<"report", r.current_answer>>}

\* ------------------------------------------------- the useCallback-based variant
\* What a handleSubmit created by a render has captured: the question and the
\* histories of that render (dependency list of line 337).  startListening is
\* re-created exactly when handleSubmit is (line 420), so one record stands for
\* the pair of callbacks of a render.
NoClosure == [q |-> 0, pq |-> <<>>, pa |-> <<>>]
NoUtterance == [kind |-> "none", k |-> NoClosure]

\* the variant after its first render (useState and useRef initial values,
\* lines 233-250)
variantMounted ==
  [ initPending       |-> TRUE,
    currentQuestion   |-> firstQuestion,
    questionNumber    |-> 1,
    previousQuestions |-> <<>>,
    previousAnswers   |-> <<>>,
    status            |-> "speaking",
    transcriptRef     |-> <<>>,
    finalTranscript   |-> <<>>,
    isSubmittingRef   |-> FALSE,
    shouldListenRef   |-> FALSE,
    recognitionRef    |-> NoClosure,      \* the closure its handlers were made in
    timerRef          |-> NoClosure,      \* the closure the interval calls
    silenceRef        |-> NoClosure,      \* the closure the armed timeout calls
    strayIntervals    |-> {},             \* intervals whose handle was overwritten
    restarts          |-> <<>>,           \* pending 1500 ms restarts: their closures
    requests          |-> <<>>,
    utterance         |-> NoUtterance,    \* the speakQuestion promise awaited
    issued            |-> 0,
    completed         |-> FALSE,
    trigger           |-> "other" ]       \* history: what called handleSubmit last

\* -------------------------------------------------------------------- actions
\* The candidate and the engine give input until the last request of the run
\* has been issued; what is pending then still runs to its end.
InputsOpen == issued < MaxRequests

Init ==
  /\ hasSR \in BOOLEAN
  /\ hasSynth \in BOOLEAN
  /\ mounted = TRUE
  /\ initPending = TRUE
  /\ status = "speaking"
  /\ error = ""
  /\ timer = MAX_RECORD_SECONDS
  /\ recognitionRef = NoConn
  /\ timerIntervalRef = Null
  /\ silenceTimeoutRef = Null
  /\ transcriptRef = <<>>
  /\ isSubmittingRef = FALSE
  /\ shouldListenRef = FALSE
  /\ currentQuestionRef = firstQuestion
  /\ previousQuestionsRef = <<>>
  /\ previousAnswersRef = <<>>
  /\ questionNumberRef = 1
  /\ conns = [c \in ConnIds |-> FreeSlot]
  /\ restarts = <<>>
  /\ requests = <<>>
  /\ utterances = <<>>
  /\ synthSpeaking = FALSE
  /\ completeCalls = <<>>
  /\ phase = "interview"
  /\ finalReport = <<>>
  /\ succeeded = <<>>
  /\ finalReceived = <<>>
  /\ heardFinals = <<>>
  /\ heardInterim = <<>>
  /\ heardText = <<>>
  /\ issued = 0
  /\ listenAge = 0
  /\ sinceHeard = 0
  /\ teardown = <<>>
  /\ last = "other"
  /\ variant = variantMounted

\* One second passes.  Nothing that is due is left waiting: a timer at 0, the
\* 500 ms initial delay, the events a browser queues at once (the end of an
\* aborted recognition, the error of a cancelled utterance), and the unmount
\* that follows App's change of phase.
Tick ==
  /\ ~initPending
  /\ phase = "report" => ~mounted
  /\ silenceTimeoutRef # 0
  /\ timerIntervalRef # 0
  /\ \A i \in 1..Len(restarts) : restarts[i] # 0
  /\ \A c \in ConnIds : conns[c].st # "aborted"
  /\ \A i \in 1..Len(utterances) : utterances[i].st # "cancelled"
  /\ silenceTimeoutRef' = IF silenceTimeoutRef > 0 THEN silenceTimeoutRef - 1 ELSE silenceTimeoutRef
  /\ timerIntervalRef' = IF timerIntervalRef > 0 THEN timerIntervalRef - 1 ELSE timerIntervalRef
  /\ restarts' = [i \in 1..Len(restarts) |-> restarts[i] - 1]
  /\ listenAge' = IF mounted /\ shouldListenRef /\ listenAge <= MAX_RECORD_SECONDS
                     THEN listenAge + 1 ELSE listenAge
  /\ sinceHeard' = IF shouldListenRef /\ sinceHeard <= MAX_RECORD_SECONDS
                      THEN sinceHeard + 1 ELSE sinceHeard
  /\ teardown' = <<>>
  /\ last' = "other"
  /\ UNCHANGED << hasSR, hasSynth, mounted, initPending, status, error, timer,
                  recognitionRef, transcriptRef, isSubmittingRef,
                  shouldListenRef, currentQuestionRef, previousQuestionsRef,
                  previousAnswersRef, questionNumberRef, conns, requests,
                  utterances, synthSpeaking, completeCalls, phase, finalReport,
                  succeeded, finalReceived, heardFinals, heardInterim,
                  heardText, issued, variant >>

\* init of the mount effect, after its 500 ms delay
InitDelay ==
  /\ initPending
  /\ LET s0 == [Cur EXCEPT !.initPending = FALSE] IN
     IF ~mounted
       THEN Do(s0, "InitDelay")
       ELSE /\ (NeedsConn(s0, InitK) /\ ~hasSynth) => HasFreeConn(s0)
            /\ Do(speakQuestion(setStatus(s0, "speaking"), InitK), "InitDelay")

\* utterance.onend / utterance.onerror of the utterance being spoken.  An engine
\* may leave speechSynthesis.speaking set after the utterance (stuck).
UtteranceEnd(i, stuck) ==
  /\ i \in 1..Len(utterances)
  /\ utterances[i].st = "active"
  /\ LET k  == utterances[i]
         s0 == [Cur EXCEPT !.utterances = RemoveAt(@, i), !.synthSpeaking = stuck]
     IN  /\ NeedsConn(s0, k) => HasFreeConn(s0)
         /\ Do(Continue(s0, k), "UtteranceEnd")

\* utterance.onerror of an utterance dropped by speechSynthesis.cancel()
UtteranceCancelled(i) ==
  /\ i \in 1..Len(utterances)
  /\ utterances[i].st = "cancelled"
  /\ LET k  == utterances[i]
         s0 == [Cur EXCEPT !.utterances = RemoveAt(@, i)]
     IN  /\ NeedsConn(s0, k) => HasFreeConn(s0)
         /\ Do(Continue(s0, k), "UtteranceCancelled")

\* a cleanup of the mount effect that stops the capture before the speech
UnmountCaptureFirst ==
  /\ mounted
  /\ LET s0 == cleanupRecording([Cur EXCEPT !.mounted = FALSE, !.status = "unmounted",
                                            !.error = "", !.timer = 0])
         s1 == IF hasSynth
                 THEN [s0 EXCEPT !.utterances = cancelSpeech(@), !.synthSpeaking = FALSE,
                                 !.teardown = Append(@, "cancel")]
                 ELSE s0
     IN  Do(s1, "Unmount")

\* cleanup of the mount effect.  React discards the state of the component
\* (status, error, timer): no render reads it again.
Unmount ==
  /\ mounted
  /\ LET s0 == [Cur EXCEPT !.mounted = FALSE, !.status = "unmounted",
                           !.error = "", !.timer = 0]
         s1 == IF hasSynth
                 THEN [s0 EXCEPT !.utterances = cancelSpeech(@), !.synthSpeaking = FALSE,
                                 !.teardown = Append(@, "cancel")]
                 ELSE s0
     IN  Do(cleanupRecording(s1), "Unmount")

\* a result event of a live recognition object
OnResult(c, ev) ==
  /\ InputsOpen
  /\ conns[c].st = "live"
  /\ Len(conns[c].ft \o FinalText(ev)) <= 2 * MaxFinals
  /\ Do(onresult(Cur, c, ev), "OnResult")

\* an error event of a recognition object
OnError(c, code) ==
  /\ InputsOpen
  /\ conns[c].st # "free"
  /\ code = "aborted" <=> conns[c].st = "aborted"
  /\ Do(onerror(Cur, code), "OnError")

\* the end event of a recognition object: after abort(), or because the
\* engine stopped on its own
OnEnd(c) ==
  /\ conns[c].st # "free"
  /\ Do(onend(Cur, c), IF shouldListenRef /\ ~isSubmittingRef THEN "OnEndRestart" ELSE "OnEnd")

\* the silence timeout without the test of speechSynthesis.speaking (lines 185-188)
SilenceFireWhileSpeaking ==
  /\ silenceTimeoutRef = 0
  /\ LET s0 == [Cur EXCEPT !.silenceTimeoutRef = Null] IN
     IF ~isSubmittingRef /\ shouldListenRef
       THEN CanSubmit(s0) /\ Do(doSubmit(s0), "SilenceSubmit")
       ELSE Do(s0, "SilenceIgnored")

\* the silence timeout fires
SilenceFire ==
  /\ silenceTimeoutRef = 0
  /\ LET s0 == [Cur EXCEPT !.silenceTimeoutRef = Null] IN
     IF hasSynth /\ synthSpeaking
       THEN Do(resetSilenceTimer([s0 EXCEPT !.sinceHeard = 0]), "SilenceDeferred")
       ELSE IF ~isSubmittingRef /\ shouldListenRef
         THEN CanSubmit(s0) /\ Do(doSubmit(s0), "SilenceSubmit")
         ELSE Do(s0, "SilenceIgnored")

\* the countdown interval with a ceiling that waits, as the silence timeout
\* does, while speechSynthesis.speaking is set
IntervalFireDeferring(run, timeUp) ==
  /\ timerIntervalRef = 0
  /\ mounted => (run /\ (timeUp <=> timer <= 1))
  /\ LET submit == run /\ timeUp /\ ~(hasSynth /\ synthSpeaking)
         s1 == IF submit
                 THEN setTimer(IF ~isSubmittingRef THEN doSubmit(Cur) ELSE Cur, 0)
                 ELSE IF run /\ ~timeUp THEN setTimer(Cur, timer - 1) ELSE Cur
     IN  /\ submit => CanSubmit(Cur)
         /\ Do([s1 EXCEPT !.timerIntervalRef = IF @ = Null THEN Null ELSE 1],
               IF submit THEN "Ceiling" ELSE "Countdown")

\* the countdown interval fires.  The updater of setTimer runs for a mounted
\* component; for an unmounted one React may or may not run it, on a state
\* that is no longer rendered, and the state it would set is dropped.
IntervalFire(run, timeUp) ==
  /\ timerIntervalRef = 0
  /\ mounted => (run /\ (timeUp <=> timer <= 1))
  /\ LET s1 == IF run /\ timeUp
                 THEN setTimer(IF ~isSubmittingRef THEN doSubmit(Cur) ELSE Cur, 0)
                 ELSE IF run THEN setTimer(Cur, timer - 1) ELSE Cur
     IN  /\ (run /\ timeUp) => CanSubmit(Cur)
         /\ Do([s1 EXCEPT !.timerIntervalRef = IF @ = Null THEN Null ELSE 1],
               IF run /\ timeUp THEN "Ceiling" ELSE "Countdown")

\* the delayed restart after a false start fires
RestartFire ==
  /\ restarts # <<>>
  /\ Head(restarts) = 0
  /\ LET s0 == setError([Cur EXCEPT !.restarts = Tail(@)], "") IN
     /\ hasSR => HasFreeConn(s0)
     /\ Do(startListeningFn(s0), "RestartFire")

\* handleDoneClick; the button is rendered in status recording
DoneClick ==
  /\ InputsOpen
  /\ mounted
  /\ phase = "interview"
  /\ hasSR
  /\ status = "recording"
  /\ CanSubmit(Cur)
  /\ Do(IF ~isSubmittingRef THEN doSubmit(Cur) ELSE Cur, "DoneClick")

\* the next-question branch reading the refs again after the await, instead of
\* the locals q and answer taken before it
onNextQuestionFromRefs(s, r, nextQ, count) ==
  LET s0 == [s EXCEPT !.previousQuestionsRef = Append(r.previous_questions, s.currentQuestionRef),
                      !.previousAnswersRef = Append(r.previous_answers, Trim(s.transcriptRef)),
                      !.currentQuestionRef = nextQ,
                      !.questionNumberRef = count + 1,
                      !.transcriptRef = <<>>,
                      !.isSubmittingRef = FALSE]
  IN  speakQuestion(setStatus(s0, "speaking"), NextK)

\* doSubmit after "await submitAnswer", for a response with next_question:
\* r holds the locals q, answer, prevQ and prevA of the call.
onNextQuestion(s, r, nextQ, count) ==
  LET s0 == [s EXCEPT !.previousQuestionsRef = Append(r.previous_questions, r.current_question),
                      !.previousAnswersRef = Append(r.previous_answers, r.current_answer),
                      !.currentQuestionRef = nextQ,
                      !.questionNumberRef = count + 1,
                      !.transcriptRef = <<>>,
                      !.isSubmittingRef = FALSE]
  IN  speakQuestion(setStatus(s0, "speaking"), NextK)

\* a final_report branch that drops the report
onFinalReportDropped(s, report) == s

\* doSubmit after "await submitAnswer", for a response with final_report
onFinalReport(s, report) == speakQuestion(s, FinalK(report))

\* a catch block that retries the request at once instead of giving up
onSubmitErrorRetry(s) ==
  [setError(s, "SubmitFailed") EXCEPT
     !.requests = Append(@,
       [ session_id         |-> sessionId,
         current_question   |-> s.currentQuestionRef,
         current_answer     |-> Trim(s.transcriptRef),
         previous_questions |-> s.previousQuestionsRef,
         previous_answers   |-> s.previousAnswersRef ])]

\* the catch block of doSubmit
onSubmitError(s) ==
  [setStatus(setError(s, "SubmitFailed"), "idle") EXCEPT !.isSubmittingRef = FALSE]

\* submitAnswer resolves with { next_question, question_count }
ResponseNext(i, nextQ, count) ==
  /\ i \in 1..Len(requests)
  /\ LET r  == requests[i]
         s0 == [Cur EXCEPT !.requests = RemoveAt(@, i),
                           !.succeeded = Append(@, <<r.current_question, r.current_answer>>)]
     IN  /\ (hasSR /\ ~hasSynth) => HasFreeConn(s0)
         /\ Do(onNextQuestion(s0, r, nextQ, count), "ResponseNext")

\* submitAnswer resolves with { final_report }
ResponseFinal(i, report) ==
  /\ i \in 1..Len(requests)
  /\ report \in Reports(requests[i])
  /\ LET s0 == [Cur EXCEPT !.requests = RemoveAt(@, i),
                           !.finalReceived = Append(@, report)]
     IN  Do(onFinalReport(s0, report), "ResponseFinal")

\* submitAnswer rejects
ResponseReject(i) ==
  /\ i \in 1..Len(requests)
  /\ Do(onSubmitError([Cur EXCEPT !.requests = RemoveAt(@, i)]), "ResponseReject")

Next ==
  \/ Tick
  \/ InitDelay
  \/ \E i \in 1..Len(utterances) : \E stuck \in BOOLEAN : UtteranceEnd(i, stuck)
  \/ \E i \in 1..Len(utterances) : UtteranceCancelled(i)
  \/ Unmount
  \/ \E c \in ConnIds : \E ev \in Events : OnResult(c, ev)
  \/ \E c \in ConnIds : \E code \in ErrorCodes : OnError(c, code)
  \/ \E c \in ConnIds : OnEnd(c)
  \/ SilenceFire
  \/ \E run \in BOOLEAN : \E timeUp \in BOOLEAN : IntervalFire(run, timeUp)
  \/ RestartFire
  \/ DoneClick
  \/ \E i \in 1..Len(requests) : \E q \in NextQuestions(requests[i]) :
       \E n \in QuestionCounts(requests[i]) : ResponseNext(i, q, n)
  \/ \E i \in 1..Len(requests) : \E report \in Reports(requests[i]) : ResponseFinal(i, report)
  \/ \E i \in 1..Len(requests) : ResponseReject(i)

Spec == Init /\ [][Next]_vars

\* --------------------------------------------------- the session that goes well
\* The interview under the conditions a session is meant to run in: the host
\* captures speech, the component stays mounted until App shows the report,
\* every listening phase receives a fragment before a submission is attempted,
\* and every request resolves: with the next question, or, for the last of the
\* fixed number of turns (MaxRequests of them here), with the final report.
LastTurn(r) == Len(r.previous_questions) + 1 >= MaxRequests

LiveInit == Init /\ hasSR

\* the withheld attempt: doSubmit is not reached on an empty transcript
Answered == Trim(transcriptRef) # <<>>

LiveSilenceFire == SilenceFire /\ (last' = "SilenceSubmit" => Answered)

LiveIntervalFire(run, timeUp) ==
  IntervalFire(run, timeUp) /\ ((last' = "Ceiling" /\ ~isSubmittingRef) => Answered)

LiveDoneClick == DoneClick /\ (~isSubmittingRef => Answered)

\* App renders the report instead of the session once phase is report
LiveUnmount == phase = "report" /\ Unmount

LiveResponseNext(i, nextQ, count) ==
  /\ i \in 1..Len(requests)
  /\ ~LastTurn(requests[i])
  /\ ResponseNext(i, nextQ, count)

LiveResponseFinal(i, report) ==
  /\ i \in 1..Len(requests)
  /\ LastTurn(requests[i])
  /\ ResponseFinal(i, report)

\* the end event a browser delivers after abort()
AbortedEnd(c) == conns[c].st = "aborted" /\ OnEnd(c)

LiveNext ==
  \/ Tick
  \/ InitDelay
  \/ \E i \in 1..Len(utterances) : \E stuck \in BOOLEAN : UtteranceEnd(i, stuck)
  \/ LiveUnmount
  \/ \E c \in ConnIds : \E ev \in Events : OnResult(c, ev)
  \/ \E c \in ConnIds : \E code \in ErrorCodes : OnError(c, code)
  \/ \E c \in ConnIds : OnEnd(c)
  \/ LiveSilenceFire
  \/ \E run \in BOOLEAN : \E timeUp \in BOOLEAN : LiveIntervalFire(run, timeUp)
  \/ LiveDoneClick
  \/ \E i \in 1..Len(requests) : \E q \in NextQuestions(requests[i]) :
       \E n \in QuestionCounts(requests[i]) : LiveResponseNext(i, q, n)
  \/ \E i \in 1..Len(requests) : \E report \in Reports(requests[i]) : LiveResponseFinal(i, report)

\* Every request resolves: with the next question, or with the final report.
Resolves ==
  \/ \E i \in 1..Len(requests) : \E q \in NextQuestions(requests[i]) :
       \E n \in QuestionCounts(requests[i]) : LiveResponseNext(i, q, n)
  \/ \E i \in 1..Len(requests) : \E report \in Reports(requests[i]) : LiveResponseFinal(i, report)

\* Every playback comes to its end.
Plays == \E i \in 1..Len(utterances) : \E stuck \in BOOLEAN : UtteranceEnd(i, stuck)

\* What the event loop owes besides: a timer that is due, a queued browser
\* event, the passing of time, and the candidate's speech in a listening phase
\* that still waits for an answer.
Due ==
  \/ Tick
  \/ InitDelay
  \/ LiveUnmount
  \/ \E c \in ConnIds : AbortedEnd(c)
  \/ LiveSilenceFire
  \/ \E run \in BOOLEAN : \E timeUp \in BOOLEAN : LiveIntervalFire(run, timeUp)
  \/ \E c \in ConnIds : \E ev \in Events : ~Answered /\ OnResult(c, ev)

\* The event loop never rests while something is due, and neither a response
\* nor the end of a playback is put off for ever.
LiveSpec ==
  LiveInit /\ [][LiveNext]_vars /\ WF_vars(Due) /\ WF_vars(Resolves) /\ WF_vars(Plays)

\* ------------------------------------------------- a service that counts freely
\* The session that goes well, with a service whose question_count is any
\* number of the sample: the component takes the field as it comes.
OpaqueCounts == {0, TOTAL_QUESTIONS - 1, TOTAL_QUESTIONS}

OpaqueResponseNext(i, nextQ, count) ==
  /\ i \in 1..Len(requests)
  /\ ~LastTurn(requests[i])
  /\ count \notin QuestionCounts(requests[i])
  /\ ResponseNext(i, nextQ, count)

OpaqueNext ==
  \/ LiveNext
  \/ \E i \in 1..Len(requests) : \E q \in NextQuestions(requests[i]) :
       \E n \in OpaqueCounts : OpaqueResponseNext(i, q, n)

OpaqueSpec == LiveInit /\ [][OpaqueNext]_vars

\* ------------------------------------------------ the variant: its callbacks
\* The handleSubmit (and startListening) of the latest render.
LatestRender(v) ==
  [q |-> v.currentQuestion, pq |-> v.previousQuestions, pa |-> v.previousAnswers]

\* stopRecording (lines 280-286)
stopRecording(v) ==
  [v EXCEPT !.shouldListenRef = FALSE,
            !.recognitionRef = NoClosure,
            !.timerRef = NoClosure,
            !.silenceRef = NoClosure]

\* startListening of the render k (lines 339-420): nothing of an earlier
\* listening phase is stopped first, and timerRef is overwritten as it is.
startListening(v, k) ==
  [v EXCEPT !.transcriptRef = <<>>,
            !.finalTranscript = <<>>,
            !.isSubmittingRef = FALSE,
            !.shouldListenRef = TRUE,
            !.recognitionRef = k,
            !.status = "recording",
            !.silenceRef = k,
            !.strayIntervals = IF v.timerRef # NoClosure THEN @ \cup {v.timerRef} ELSE @,
            !.timerRef = k]

\* handleSubmit of the render k (lines 288-308), called by the trigger by
handleSubmit(v, k, by) ==
  IF v.isSubmittingRef
    THEN v
    ELSE
      LET answer == Trim(v.transcriptRef) IN
      IF answer = <<>>
        THEN [v EXCEPT !.restarts = Append(@, k)]
        ELSE [stopRecording(v) EXCEPT
                !.isSubmittingRef = TRUE,
                !.status = "processing",
                !.requests = Append(@,
                   [ current_question   |-> k.q,
                     current_answer     |-> answer,
                     previous_questions |-> k.pq,
                     previous_answers   |-> k.pa ]),
                !.issued = @ + 1,
                !.trigger = by]

\* the render whose handleSubmit awaits the request r: what it captured is
\* what it sent
Awaiting(r) ==
  [q |-> r.current_question, pq |-> r.previous_questions, pa |-> r.previous_answers]

\* the caps on issued requests and pending restarts
VariantCanSubmit(v) ==
  \/ v.isSubmittingRef
  \/ Trim(v.transcriptRef) = <<>> /\ Len(v.restarts) < MaxRestarts
  \/ Trim(v.transcriptRef) # <<>> /\ v.issued <= MaxRequests

\* ------------------------------------------------- the variant: its actions
VariantStep(v) == variant' = v /\ UNCHANGED sessionVars

\* init of the mount effect (lines 423-431), up to await speakQuestion
VariantInitDelay ==
  /\ variant.initPending
  /\ VariantStep([variant EXCEPT !.initPending = FALSE,
                                  !.status = "speaking",
                                  !.utterance = [kind |-> "listen", k |-> LatestRender(variant)],
                                  !.trigger = "other"])

\* the promise of speakQuestion resolves: startListening of the render that
\* awaited it (lines 331, 429), or onComplete (lines 312-314)
VariantUtteranceEnd ==
  /\ variant.utterance.kind # "none"
  /\ LET v0 == [variant EXCEPT !.utterance = NoUtterance, !.trigger = "other"] IN
     IF variant.utterance.kind = "listen"
       THEN VariantStep(startListening(v0, variant.utterance.k))
       ELSE VariantStep([v0 EXCEPT !.completed = TRUE, !.isSubmittingRef = FALSE])

\* recognition.onresult (lines 372-382)
VariantOnResult(ev) ==
  /\ variant.recognitionRef # NoClosure
  /\ variant.issued <= MaxRequests
  /\ Len(variant.finalTranscript \o FinalText(ev)) <= 2 * MaxFinals
  /\ LET finalTranscript == variant.finalTranscript \o FinalText(ev) IN
     VariantStep([variant EXCEPT !.finalTranscript = finalTranscript,
                                 !.transcriptRef = finalTranscript \o InterimText(ev),
                                 !.silenceRef = variant.recognitionRef,
                                 !.trigger = "other"])

\* the silence timeout (lines 359-369)
VariantSilenceFire ==
  /\ variant.silenceRef # NoClosure
  /\ VariantCanSubmit(variant)
  /\ IF variant.utterance.kind # "none"
       THEN VariantStep([variant EXCEPT !.trigger = "other"])
       ELSE IF variant.isSubmittingRef
         THEN VariantStep([variant EXCEPT !.silenceRef = NoClosure, !.trigger = "other"])
         ELSE VariantStep(handleSubmit(stopRecording([variant EXCEPT !.trigger = "other"]),
                                       variant.silenceRef, "silence"))

\* the countdown interval reaching its end (line 416), for the interval of
\* timerRef or one whose handle was overwritten
VariantCeilingFire(k) ==
  /\ k # NoClosure
  /\ k = variant.timerRef \/ k \in variant.strayIntervals
  /\ VariantCanSubmit(variant)
  /\ VariantStep(handleSubmit(stopRecording([variant EXCEPT !.trigger = "other"]), k, "ceiling"))

\* the Done Speaking button (line 481), rendered in status recording with the
\* handleSubmit of the latest render
VariantDoneClick ==
  /\ variant.status = "recording"
  /\ VariantCanSubmit(variant)
  /\ VariantStep(handleSubmit(stopRecording([variant EXCEPT !.trigger = "other"]),
                              LatestRender(variant), "done"))

\* the 1500 ms restart of line 293
VariantRestartFire(i) ==
  /\ i \in 1..Len(variant.restarts)
  /\ VariantStep(startListening([variant EXCEPT !.restarts = RemoveAt(@, i),
                                                !.trigger = "other"],
                                variant.restarts[i]))

\* submitAnswer resolves with { next_question, question_count } (lines 318-330)
VariantResponseNext(i, nextQ, count) ==
  /\ i \in 1..Len(variant.requests)
  /\ LET r == variant.requests[i] IN
     VariantStep([variant EXCEPT
       !.requests = RemoveAt(@, i),
       !.previousQuestions = Append(@, r.current_question),
       !.previousAnswers = Append(@, r.current_answer),
       !.currentQuestion = nextQ,
       !.questionNumber = count + 1,
       !.transcriptRef = <<>>,
       !.isSubmittingRef = FALSE,
       !.status = "speaking",
       !.utterance = [kind |-> "listen", k |-> Awaiting(r)],
       !.trigger = "other"])

\* submitAnswer resolves with { final_report } (lines 311-316)
VariantResponseFinal(i) ==
  /\ i \in 1..Len(variant.requests)
  /\ VariantStep([variant EXCEPT
       !.requests = RemoveAt(@, i),
       !.utterance = [kind |-> "final", k |-> Awaiting(variant.requests[i])],
       !.trigger = "other"])

\* submitAnswer rejects (lines 332-336)
VariantResponseReject(i) ==
  /\ i \in 1..Len(variant.requests)
  /\ VariantStep([variant EXCEPT !.requests = RemoveAt(@, i),
                                 !.status = "idle",
                                 !.isSubmittingRef = FALSE,
                                 !.trigger = "other"])

VariantNext ==
  \/ VariantInitDelay
  \/ VariantUtteranceEnd
  \/ \E ev \in Events : VariantOnResult(ev)
  \/ VariantSilenceFire
  \/ \E k \in {variant.timerRef} \cup variant.strayIntervals : VariantCeilingFire(k)
  \/ VariantDoneClick
  \/ \E i \in 1..Len(variant.restarts) : VariantRestartFire(i)
  \/ \E i \in 1..Len(variant.requests) : \E q \in NextQuestions(variant.requests[i]) :
       \E n \in QuestionCounts(variant.requests[i]) : VariantResponseNext(i, q, n)
  \/ \E i \in 1..Len(variant.requests) : VariantResponseFinal(i)
  \/ \E i \in 1..Len(variant.requests) : VariantResponseReject(i)

\* The variant on a host with speech recognition; the session is left as it
\* was mounted.
VariantInit == Init /\ hasSR /\ hasSynth

VariantSpec == VariantInit /\ [][VariantNext]_vars

\* ================================================================== claims

\* C1: at most one submitAnswer request is outstanding for a turn: no two
\* requests awaiting their response carry the same current question.
C1_OneRequestPerTurn ==
  \A i, j \in 1..Len(requests) :
    i # j => requests[i].current_question # requests[j].current_question

\* C2: at most one recognition connection is live at any time.
C2_OneLiveConnection ==
  Cardinality({c \in ConnIds : conns[c].st = "live"}) <= 1

\* C3: every step that takes the status out of listening ("recording") ends
\* with both timers cleared, the connection that was current stopped and its
\* handle null, and the want-input flag false.
C3_LeavingListeningReleases ==
  [][(status = "recording" /\ status' # "recording") =>
       /\ silenceTimeoutRef' = Null
       /\ timerIntervalRef' = Null
       /\ recognitionRef' = NoConn
       /\ ~shouldListenRef'
       /\ \A c \in ConnIds : conns'[c].st # "live"]_vars

\* C4: the silence timeout never calls doSubmit while speechSynthesis reports
\* speaking; fired in that state it only re-arms itself for a full silence
\* delay and leaves the status and everything else as they were.
C4_SilenceDefersWhileSpeaking ==
  [][/\ last' = "SilenceSubmit" => ~(hasSynth /\ synthSpeaking)
     /\ (SilenceFire /\ hasSynth /\ synthSpeaking) =>
          /\ last' = "SilenceDeferred"
          /\ silenceTimeoutRef' = SILENCE_TICKS
          /\ UNCHANGED << status, error, timer, requests, issued, restarts,
                          isSubmittingRef, shouldListenRef, recognitionRef,
                          conns, timerIntervalRef, transcriptRef >>]_vars

\* C4 witness: the timeout has fired during listening while the driver was
\* speaking, and was re-armed without a submission.
C4_Witness ==
  /\ last = "SilenceDeferred"
  /\ status = "recording"
  /\ synthSpeaking
  /\ silenceTimeoutRef = SILENCE_TICKS
  /\ requests = <<>>

\* C5 as stated: once the ceiling has fired, the listening phase has ended in
\* the submitting state (status processing).
C5_CeilingEndsInSubmitting ==
  (mounted /\ last = "Ceiling") => status = "processing"

\* C5 amended: the ceiling calls doSubmit no later than MAX_RECORD_SECONDS
\* after listening started, whatever speechSynthesis reports; capture and both
\* timers are then stopped, and the phase ends in the submitting state if the
\* trimmed transcript is not empty, and in a scheduled false-start restart if
\* it is empty.
C5_CeilingEndsListening ==
  /\ (mounted /\ shouldListenRef) => listenAge <= MAX_RECORD_SECONDS
  /\ last = "Ceiling" =>
       /\ ~shouldListenRef
       /\ silenceTimeoutRef = Null
       /\ timerIntervalRef = Null
       /\ recognitionRef = NoConn
       /\ IF Trim(transcriptRef) # <<>>
            THEN isSubmittingRef /\ requests # <<>> /\ (mounted => status = "processing")
            ELSE restarts # <<>>

\* C5 witness: the ceiling has fired and submitted while the driver's speaking
\* signal was still set.
C5_Witness ==
  /\ last = "Ceiling"
  /\ mounted
  /\ hasSynth /\ synthSpeaking
  /\ status = "processing"
  /\ requests # <<>>

\* C6: when a live recognition object ends while input is still wanted
\* (shouldListenRef set, no submission in flight), the end handler starts a
\* connection with the same handlers (the same closure) and makes it current;
\* being a property of every such step, it holds for each later end as well.
C6_UnexpectedEndRestarts ==
  [][\A c \in ConnIds :
       (OnEnd(c) /\ conns[c].st = "live" /\ shouldListenRef /\ ~isSubmittingRef) =>
         /\ conns'[c] = [st |-> "live", ft |-> conns[c].ft]
         /\ recognitionRef' = c
         /\ shouldListenRef'
         /\ UNCHANGED << status, transcriptRef, silenceTimeoutRef, timerIntervalRef >>]_vars

\* C6 witness: an end event has restarted the only connection, which is
\* current and still holds the text finalized before the end.
C6_Witness ==
  /\ last = "OnEndRestart"
  /\ status = "recording"
  /\ recognitionRef \in ConnIds
  /\ conns[recognitionRef] = [st |-> "live", ft |-> <<"a", " ">>]
  /\ \A c \in ConnIds : c # recognitionRef => conns[c].st = "free"

RECURSIVE JoinFinals(_)
JoinFinals(fs) == IF fs = <<>> THEN <<>> ELSE Head(fs) \o <<" ">> \o JoinFinals(Tail(fs))

\* C7: during a listening phase the transcript is the finalized fragments
\* delivered in the phase, in order (each followed by a space), followed by
\* the interim text of the latest result event.
C7_TranscriptIsFinalsPlusInterim ==
  shouldListenRef => transcriptRef = JoinFinals(heardFinals) \o heardInterim

\* C8: a request is issued with the question and the trimmed transcript held
\* when doSubmit ran; a request in flight never changes; and the pair appended
\* to the histories on success is the pair of the request that succeeded.
C8_SubmissionIsSnapshot ==
  [][/\ Len(requests') > Len(requests) =>
          /\ requests' = Append(requests, requests'[Len(requests')])
          /\ requests'[Len(requests')].current_question = currentQuestionRef
          /\ requests'[Len(requests')].current_answer = Trim(transcriptRef)
     /\ Len(requests') <= Len(requests) =>
          \/ requests' = requests
          \/ \E i \in 1..Len(requests) : requests' = RemoveAt(requests, i)
     /\ Len(succeeded') > Len(succeeded) =>
          \E i \in 1..Len(requests) :
            /\ requests' = RemoveAt(requests, i)
            /\ previousQuestionsRef' # <<>> /\ previousAnswersRef' # <<>>
            /\ previousQuestionsRef'[Len(previousQuestionsRef')] = requests[i].current_question
            /\ previousAnswersRef'[Len(previousAnswersRef')] = requests[i].current_answer]_vars

\* C8 witness: a request is in flight while the transcript and a later
\* listening phase have moved on from the answer it carries.
C8_Witness ==
  /\ requests # <<>>
  /\ shouldListenRef
  /\ Trim(transcriptRef) # requests[1].current_answer

\* C9: every request in flight carries the session id, and the histories the
\* next request will copy (lines 104-105) are the pairs of the submissions
\* that succeeded, in order, none missing and none twice.
C9_HistoriesAreSucceededTurns ==
  /\ \A i \in 1..Len(requests) :
       /\ requests[i].session_id = sessionId
       /\ Len(requests[i].previous_questions) = Len(requests[i].previous_answers)
  /\ previousQuestionsRef = [i \in 1..Len(succeeded) |-> succeeded[i][1]]
  /\ previousAnswersRef = [i \in 1..Len(succeeded) |-> succeeded[i][2]]

\* C10: onComplete is called at most once, and only with a final_report
\* payload that a response delivered.
C10_CompleteOnce ==
  /\ Len(completeCalls) <= 1
  /\ \A i \in 1..Len(completeCalls) :
       \E j \in 1..Len(finalReceived) : completeCalls[i] = finalReceived[j]

\* C11: once a response with final_report has been received, no step starts
\* a recognition connection, arms the silence timeout or the countdown
\* interval, or sets the status back to listening.
C11_TerminalAfterFinalReport ==
  [][finalReceived # <<>> =>
       /\ \A c \in ConnIds : conns'[c].st = "live" => conns[c].st = "live"
       /\ silenceTimeoutRef' # Null => silenceTimeoutRef # Null
       /\ timerIntervalRef' # Null => timerIntervalRef # Null
       /\ status' = "recording" => status = "recording"]_vars

\* C12: a submission attempt (Done click, silence timeout, ceiling) that finds
\* the trimmed transcript empty issues no request, leaves the turn number,
\* the question, the histories and the status as they were, ends nothing, and
\* schedules one restart with the fixed delay; when the delay has run out the
\* restart starts listening again for the same question.
C12_EmptyAttemptIsFalseStart ==
  [][/\ ( /\ DoneClick \/ last' \in {"SilenceSubmit", "Ceiling"}
          /\ ~isSubmittingRef
          /\ Trim(transcriptRef) = <<>> ) =>
            /\ restarts' = Append(restarts, RESTART_TICKS)
            /\ UNCHANGED << requests, issued, questionNumberRef,
                            currentQuestionRef, previousQuestionsRef,
                            previousAnswersRef, status, completeCalls, phase,
                            isSubmittingRef >>
     /\ RestartFire =>
            /\ Head(restarts) = 0
            /\ restarts' = Tail(restarts)
            /\ hasSR => /\ shouldListenRef'
                        /\ recognitionRef' \in ConnIds
                        /\ conns'[recognitionRef'].st = "live"
                        /\ silenceTimeoutRef' = SILENCE_TICKS
                        /\ timerIntervalRef' # Null
                        /\ mounted => status' = "recording"
            /\ UNCHANGED << requests, issued, questionNumberRef,
                            currentQuestionRef, previousQuestionsRef,
                            previousAnswersRef >>]_vars

\* C12 witness: the silence timeout has found the transcript empty; a restart
\* is pending and no request was ever issued.
C12_Witness ==
  /\ last = "SilenceSubmit"
  /\ restarts = <<RESTART_TICKS>>
  /\ error = "NoSpeech"
  /\ issued = 0
  /\ questionNumberRef = 1

\* C13: when submitAnswer rejects, the message is set and the status becomes
\* idle (for a mounted component), onComplete is not called, the turn number,
\* the question and the histories are not changed, the in-flight flag is
\* cleared, and the step issues no request: the rejected one just leaves.
C13_RejectionGoesIdle ==
  [][\A i \in 1..Len(requests) : ResponseReject(i) =>
       /\ mounted => (error' = "SubmitFailed" /\ status' = "idle")
       /\ ~isSubmittingRef'
       /\ requests' = RemoveAt(requests, i)
       /\ UNCHANGED << issued, completeCalls, phase, finalReceived, succeeded,
                       questionNumberRef, currentQuestionRef,
                       previousQuestionsRef, previousAnswersRef,
                       utterances, restarts, conns, recognitionRef,
                       silenceTimeoutRef, timerIntervalRef >>]_vars

\* C13 witness: a rejection has left the component idle with its message, no
\* request outstanding, and the first turn still current.
C13_Witness ==
  /\ mounted
  /\ status = "idle"
  /\ error = "SubmitFailed"
  /\ ~isSubmittingRef
  /\ requests = <<>>
  /\ issued = 1
  /\ questionNumberRef = 1
  /\ previousQuestionsRef = <<>>
  /\ completeCalls = <<>>

\* C14: a mounted component in status idle always has a way back to
\* listening: the Done button is rendered (status recording), or a restart, a
\* spoken question, a request or a listening phase is still pending.
C14_IdleIsRestartable ==
  (mounted /\ phase = "interview" /\ status = "idle") =>
     \/ hasSR /\ status = "recording"
     \/ restarts # <<>>
     \/ \E i \in 1..Len(utterances) : utterances[i].kind \in {"init", "next"}
     \/ requests # <<>>
     \/ initPending
     \/ shouldListenRef
     \/ silenceTimeoutRef # Null
     \/ timerIntervalRef # Null

\* C15: a response that arrives after unmount is discarded: the step that
\* takes it speaks nothing, starts no connection, arms no timer, calls
\* onComplete not at all and changes neither question, turn number nor
\* histories.
C15_ResponseAfterUnmountDiscarded ==
  [][(~mounted /\ Len(requests') < Len(requests)) =>
       UNCHANGED << utterances, conns, recognitionRef, silenceTimeoutRef,
                    timerIntervalRef, shouldListenRef, completeCalls, phase,
                    currentQuestionRef, questionNumberRef,
                    previousQuestionsRef, previousAnswersRef >>]_vars

\* C16: after unmount no recognition connection is live, neither timer is
\* armed and no utterance is being spoken, whatever was pending at unmount.
C16_SilentAfterUnmount ==
  ~mounted =>
     /\ \A c \in ConnIds : conns[c].st # "live"
     /\ recognitionRef \notin ConnIds
     /\ silenceTimeoutRef = Null
     /\ timerIntervalRef = Null
     /\ \A i \in 1..Len(utterances) : utterances[i].st # "active"

\* C17: while the component is mounted, the silence timeout and the countdown
\* interval are armed only in status recording.
C17_TimersOnlyWhileListening ==
  (mounted /\ (silenceTimeoutRef # Null \/ timerIntervalRef # Null)) =>
     status = "recording"

\* C18: the promise of speakQuestion resolves on the end and on the error
\* event of its utterance, and at once without speechSynthesis: the code
\* after the await runs in the step that takes the event, and a host without
\* speech output and with speech recognition never rests in status speaking
\* but is listening after the initial delay and after every next question.
C18_SpeakQuestionResolves ==
  [][/\ ~hasSynth =>
          /\ utterances' = <<>>
          /\ (mounted' /\ hasSR /\ ~initPending') => status' # "speaking"
          /\ (mounted /\ hasSR /\ (InitDelay \/ Len(succeeded') > Len(succeeded))) =>
                (status' = "recording" /\ shouldListenRef')
     /\ \A i \in 1..Len(utterances) :
          ((\E stuck \in BOOLEAN : UtteranceEnd(i, stuck)) \/ UtteranceCancelled(i)) =>
             /\ utterances' = RemoveAt(utterances, i)
             /\ (utterances[i].kind = "next" /\ hasSR) => shouldListenRef'
             /\ (utterances[i].kind = "init" /\ hasSR /\ mounted) => shouldListenRef'
             /\ utterances[i].kind = "final" =>
                  completeCalls' = Append(completeCalls, utterances[i].report)]_vars

\* C18 witness: without speech output the second question has been reached
\* and the component is listening.
C18_Witness ==
  /\ ~hasSynth /\ hasSR /\ mounted
  /\ questionNumberRef = 2
  /\ status = "recording"
  /\ shouldListenRef
  /\ succeeded # <<>>
  /\ utterances = <<>>

\* C19: on a host without speech recognition no recognition object exists,
\* no timer is armed, the status is never recording, no restart is scheduled
\* and no request is issued; once startListeningFn has been reached the
\* message of line 158 is set.
C19_NoCaptureCapability ==
  ~hasSR =>
     /\ \A c \in ConnIds : conns[c] = FreeSlot
     /\ recognitionRef = NoConn
     /\ silenceTimeoutRef = Null /\ timerIntervalRef = Null
     /\ ~shouldListenRef
     /\ status # "recording"
     /\ restarts = <<>>
     /\ requests = <<>> /\ issued = 0
     /\ completeCalls = <<>>
     /\ (mounted /\ ~initPending /\ utterances = <<>>) => error = "NotSupported"

\* C19 witness: the first question was spoken on a host without speech
\* recognition and startListeningFn has set its message.
C19_Witness ==
  /\ ~hasSR /\ hasSynth /\ mounted
  /\ ~initPending
  /\ utterances = <<>>
  /\ error = "NotSupported"
  /\ status = "speaking"

\* C20: an error event of the engine with code aborted or no-speech changes
\* nothing; with any other code it sets the message (of a mounted component)
\* and changes nothing else: status, connections, handle, timers, transcript,
\* flags, requests and restarts stay as they were.
C20_EngineErrorOnlyWarns ==
  [][\A c \in ConnIds : \A code \in ErrorCodes : OnError(c, code) =>
       /\ code \in {"aborted", "no-speech"} => error' = error
       /\ (code \notin {"aborted", "no-speech"} /\ mounted) => error' = "SpeechError"
       /\ UNCHANGED << status, timer, conns, recognitionRef, silenceTimeoutRef,
                       timerIntervalRef, transcriptRef, isSubmittingRef,
                       shouldListenRef, requests, issued, restarts, utterances,
                       completeCalls, phase, currentQuestionRef,
                       questionNumberRef, previousQuestionsRef,
                       previousAnswersRef, mounted >>]_vars

\* C20 witness: the engine has reported an error during listening, the
\* message is shown and listening goes on with its connection and timers.
C20_Witness ==
  /\ mounted
  /\ error = "SpeechError"
  /\ status = "recording"
  /\ shouldListenRef
  /\ recognitionRef \in ConnIds
  /\ conns[recognitionRef].st = "live"
  /\ silenceTimeoutRef # Null
  /\ timerIntervalRef # Null
  /\ requests = <<>>

\* C21: in a session that goes well (LiveSpec) onComplete is eventually
\* called, and from some point on the loop is at rest for good: no request
\* outstanding, no utterance pending, no restart pending, input no longer
\* wanted, both timers cleared and the component unmounted by App.
C21_SessionCompletes ==
  <>[]( /\ completeCalls # <<>>
        /\ phase = "report"
        /\ ~mounted
        /\ requests = <<>>
        /\ utterances = <<>>
        /\ restarts = <<>>
        /\ ~shouldListenRef
        /\ silenceTimeoutRef = Null
        /\ timerIntervalRef = Null )

\* C21 witness: the report of the last turn has been handed to onComplete
\* after every turn was answered, and everything is at rest.
C21_Witness ==
  /\ completeCalls # <<>>
  /\ Len(succeeded) = MaxRequests - 1
  /\ issued = MaxRequests
  /\ ~mounted
  /\ requests = <<>> /\ utterances = <<>>
  /\ ~shouldListenRef

\* C22: a submission by the silence timeout happens exactly SILENCE_TICKS
\* after the latest result event (the driver not speaking, the ceiling not yet
\* reached) and carries the transcript as that event left it: the timeout
\* never calls doSubmit earlier, listening never goes on for longer without
\* it, and when it fires in that state it does call doSubmit.
C22_SilenceSubmitsAfterLastFragment ==
  [][/\ last' = "SilenceSubmit" =>
          /\ sinceHeard = SILENCE_TICKS
          /\ ~(hasSynth /\ synthSpeaking)
          /\ Len(requests') > Len(requests) =>
               /\ requests' = Append(requests, requests'[Len(requests')])
               /\ requests'[Len(requests')].current_answer = Trim(heardText)
     /\ (shouldListenRef' /\ ~isSubmittingRef') => sinceHeard' <= SILENCE_TICKS
     /\ (SilenceFire /\ ~(hasSynth /\ synthSpeaking) /\ shouldListenRef /\ ~isSubmittingRef) =>
          /\ last' = "SilenceSubmit"
          /\ ~shouldListenRef'
          /\ Trim(transcriptRef) # <<>> => Len(requests') = Len(requests) + 1]_vars

\* C22 witness: a final fragment and then an interim one arrived, the silence
\* timeout submitted both before the countdown had run out, and the request
\* carries the transcript of the second.
C22_Witness ==
  /\ last = "SilenceSubmit"
  /\ mounted
  /\ status = "processing"
  /\ timer >= 1
  /\ issued = 1
  /\ requests # <<>>
  /\ requests[1].current_answer = <<"a", " ", "a">>

\* C23: the turn number is at least 1 and at most TOTAL_QUESTIONS, whatever
\* question_count the responses carry.
C23_TurnNumberInRange ==
  1 <= questionNumberRef /\ questionNumberRef <= TOTAL_QUESTIONS

\* C24: a response with next_question appends exactly the submitted pair to
\* the histories, makes next_question the current question and
\* question_count + 1 the turn number, clears the transcript and the in-flight
\* flag and sets the status to speaking; and while the status is speaking no
\* capture is wanted or live: it starts when the playback has resolved.
C24_NextQuestionThenListen ==
  [][/\ \A i \in 1..Len(requests) : \A q \in NextQuestions(requests[i]) :
          \A n \in QuestionCounts(requests[i]) :
            ResponseNext(i, q, n) =>
              /\ previousQuestionsRef' = Append(previousQuestionsRef, requests[i].current_question)
              /\ previousAnswersRef' = Append(previousAnswersRef, requests[i].current_answer)
              /\ currentQuestionRef' = q
              /\ questionNumberRef' = n + 1
              /\ transcriptRef' = <<>>
              /\ ~isSubmittingRef'
              /\ (hasSynth /\ mounted) => status' = "speaking"
     /\ (mounted' /\ status' = "speaking") =>
          /\ ~shouldListenRef'
          /\ \A c \in ConnIds : conns'[c].st # "live"]_vars

\* The calls of a callback come in the order of ranks: each call's rank is at
\* least that of the call before it.
InOrder(log, rank) ==
  \A i, j \in 1..Len(log) : i < j => rank[log[i]] <= rank[log[j]]

StoppingCalls == {"abort", "clearInterval", "clearTimeout", "cancel"}

\* the order the claim states: the handle, then both timers, then the utterance
ClaimedRank ==
  [c \in StoppingCalls |->
     CASE c = "abort" -> 1
       [] c \in {"clearInterval", "clearTimeout"} -> 2
       [] c = "cancel" -> 3]

\* the order of lines 272-273 and 65-77: the utterance, then the handle, then
\* the countdown interval, then the silence timeout
CodeRank ==
  [c \in StoppingCalls |->
     CASE c = "cancel" -> 0
       [] c = "abort" -> 1
       [] c = "clearInterval" -> 2
       [] c = "clearTimeout" -> 3]

\* a step that unmounts the component or ends a listening phase
TearsDown == (mounted /\ ~mounted') \/ (shouldListenRef /\ ~shouldListenRef')

\* C25 as stated: on unmount and on leaving the listening phase the handle is
\* stopped first, then the timers are cleared, then the utterance is cancelled.
C25_TeardownCaptureTimersSpeech ==
  [][TearsDown => InOrder(teardown', ClaimedRank)]_vars

\* C25 amended: on unmount speechSynthesis.cancel() is called first, then
\* cleanupRecording; cleanupRecording, on unmount and on leaving the listening
\* phase alike, first suppresses the restart and aborts the handle, then
\* clears the countdown interval, then the silence timeout, and leaves all
\* that cleared; a step that only leaves the listening phase cancels no
\* utterance.
C25_TeardownSpeechCaptureTimers ==
  [][TearsDown =>
       /\ InOrder(teardown', CodeRank)
       /\ (mounted /\ ~mounted' /\ hasSynth) => (teardown' # <<>> /\ teardown'[1] = "cancel")
       /\ mounted' => \A i \in 1..Len(teardown') : teardown'[i] # "cancel"
       /\ (recognitionRef \in ConnIds /\ conns[recognitionRef].st = "live") =>
            (\E i \in 1..Len(teardown') : teardown'[i] = "abort")
       /\ ~shouldListenRef'
       /\ recognitionRef' = NoConn
       /\ timerIntervalRef' = Null
       /\ silenceTimeoutRef' = Null]_vars

\* C25 witness: the component was unmounted while it was listening on a host
\* with speech output; the utterance was cancelled before the capture handle
\* was stopped and the timers were cleared.
C25_Witness ==
  /\ ~mounted
  /\ teardown = <<"cancel", "abort", "clearInterval", "clearTimeout">>

\* C26: the restart after a false start belongs to the turn that is already
\* running: it does not arm the countdown interval again, and it does not put
\* the countdown back to its full duration after time has run off it.
C26_CeilingArmedOncePerTurn ==
  [][RestartFire =>
       /\ questionNumberRef' = questionNumberRef
       /\ ~(timerIntervalRef = Null /\ timerIntervalRef' # Null)
       /\ ~(mounted /\ timer < MAX_RECORD_SECONDS /\ timer' = MAX_RECORD_SECONDS)]_vars

\* C27: a result event sets the transcript (the closure's finalized text, then
\* the interim text) and re-arms the silence timeout for a full delay, and
\* changes nothing else: countdown, interval, status, question, turn number,
\* histories, flags, connections' states, requests and restarts stay as they
\* were; so the listening phase of a mounted component is still never older
\* than MAX_RECORD_SECONDS.
C27_FragmentRearmsSilenceOnly ==
  [][/\ \A c \in ConnIds : \A ev \in Events : OnResult(c, ev) =>
          /\ transcriptRef' = conns[c].ft \o FinalText(ev) \o InterimText(ev)
          /\ silenceTimeoutRef' = SILENCE_TICKS
          /\ \A d \in ConnIds : conns'[d].st = conns[d].st
          /\ UNCHANGED << timer, timerIntervalRef, status, error,
                          currentQuestionRef, questionNumberRef,
                          previousQuestionsRef, previousAnswersRef,
                          isSubmittingRef, shouldListenRef, recognitionRef,
                          requests, issued, restarts, utterances,
                          synthSpeaking, completeCalls, phase, mounted,
                          listenAge >>
     /\ (mounted' /\ shouldListenRef') => listenAge' <= MAX_RECORD_SECONDS]_vars

\* C27 witness: a fragment has just arrived in the last second of the
\* countdown; the silence timeout is armed afresh and the countdown still
\* shows its last second.
C27_Witness ==
  /\ mounted /\ shouldListenRef
  /\ status = "recording"
  /\ ~synthSpeaking
  /\ listenAge = MAX_RECORD_SECONDS - 1
  /\ timer = 1
  /\ sinceHeard = 0
  /\ transcriptRef # <<>>
  /\ silenceTimeoutRef = SILENCE_TICKS
  /\ timerIntervalRef # Null

\* C28: the restart after an unexpected end replaces the recognition object
\* and nothing else: the text finalized so far (the closure's
\* finalTranscript), the transcript, the pending silence timeout with the
\* time it has left, the countdown and its interval, the status, the
\* question, the turn number, the histories and the in-flight flag are as
\* before; and whatever a connection delivers later is put after the text
\* finalized before.
C28_RestartIsTransparent ==
  [][\A c \in ConnIds :
       /\ (OnEnd(c) /\ conns[c].st = "live" /\ shouldListenRef /\ ~isSubmittingRef) =>
            /\ conns'[c].ft = conns[c].ft
            /\ \A d \in ConnIds : d # c => conns'[d] = conns[d]
            /\ UNCHANGED << transcriptRef, silenceTimeoutRef, timerIntervalRef,
                            timer, status, error, currentQuestionRef,
                            questionNumberRef, previousQuestionsRef,
                            previousAnswersRef, isSubmittingRef,
                            shouldListenRef, requests, issued, restarts,
                            utterances, completeCalls, heardFinals,
                            listenAge, sinceHeard >>
       /\ \A ev \in Events : OnResult(c, ev) =>
            /\ Len(transcriptRef') >= Len(conns[c].ft)
            /\ SubSeq(transcriptRef', 1, Len(conns[c].ft)) = conns[c].ft
            /\ SubSeq(conns'[c].ft, 1, Len(conns[c].ft)) = conns[c].ft]_vars

\* C28 witness: the engine ended in the middle of a listening phase with one
\* fragment finalized; the restart has left the text, the half-run silence
\* timeout and the countdown as they were.
C28_Witness ==
  /\ last = "OnEndRestart"
  /\ mounted /\ status = "recording"
  /\ transcriptRef = <<"a", " ">>
  /\ recognitionRef \in ConnIds
  /\ conns[recognitionRef] = [st |-> "live", ft |-> <<"a", " ">>]
  /\ silenceTimeoutRef = SILENCE_TICKS - 1
  /\ sinceHeard = 1
  /\ timer = MAX_RECORD_SECONDS - 1

\* C29: the end event of a recognition object that cleanupRecording aborted
\* never starts a connection, whenever it is delivered.
C29_IntendedStopNeverRestarts ==
  [][\A c \in ConnIds : (OnEnd(c) /\ conns[c].st = "aborted") =>
       /\ conns'[c].st # "live"
       /\ recognitionRef' # c]_vars

\* the utterances that are queued or being spoken
Audible(us) == {i \in 1..Len(us) : us[i].st = "active"}

\* C30: at most one utterance is queued or being spoken at any time; a step
\* that queues one has cancelled every utterance that was there before it;
\* and unmounting leaves none.
C30_SpeakIsSingleFlight ==
  [][/\ Cardinality(Audible(utterances')) <= 1
     /\ Len(utterances') > Len(utterances) =>
          /\ Len(utterances') = Len(utterances) + 1
          /\ Audible(utterances') = {Len(utterances')}
          /\ \A i \in 1..Len(utterances) :
               utterances'[i] = [utterances[i] EXCEPT !.st = "cancelled"]
     /\ (mounted /\ ~mounted') => Audible(utterances') = {}]_vars

\* C30 witness: a question was queued while another was still being spoken;
\* the earlier one is cancelled and only the later one is spoken.
C30_Witness ==
  /\ Len(utterances) = 2
  /\ utterances[1].st = "cancelled"
  /\ utterances[2].st = "active"
  /\ synthSpeaking

\* the mount sequence has not yet come to the end of its first playback
FirstPlaybackPending ==
  \/ initPending
  \/ \E i \in 1..Len(utterances) : utterances[i].kind = "init"

\* no capture connection exists or is wanted, and no timer is armed
NoCapture ==
  /\ \A c \in ConnIds : conns[c].st = "free"
  /\ recognitionRef \notin ConnIds
  /\ ~shouldListenRef
  /\ silenceTimeoutRef = Null
  /\ timerIntervalRef = Null
  /\ restarts = <<>>

\* C31: during the initial delay nothing is spoken; until the first playback
\* has resolved no capture connection exists and no timer is armed; and when
\* the component is unmounted before the first playback resolves, the step
\* that ends the mount sequence starts no connection and arms no timer.
C31_FirstQuestionThenCapture ==
  [][/\ initPending' => (utterances' = <<>> /\ ~synthSpeaking' /\ status' # "speaking")
     /\ FirstPlaybackPending' => NoCapture'
     /\ (FirstPlaybackPending /\ ~mounted') => (NoCapture' /\ status' # "recording")]_vars

\* C31 witness: the component was unmounted while the first question was
\* being spoken; the cancelled playback has resolved and nothing was started.
C31_Witness ==
  /\ hasSR /\ hasSynth
  /\ ~mounted
  /\ last = "UtteranceCancelled"
  /\ issued = 0
  /\ ~FirstPlaybackPending
  /\ NoCapture

\* C32: in the useCallback-based variant, a request that the silence timer or
\* the ceiling timer issues on a turn after the first carries the question of
\* that turn and the histories of all turns before it.
C32_TimersSubmitCurrentTurn ==
  [][(/\ Len(variant'.requests) > Len(variant.requests)
      /\ variant'.trigger \in {"silence", "ceiling"}
      /\ variant.questionNumber > 1) =>
       LET r == variant'.requests[Len(variant'.requests)] IN
         /\ r.current_question = variant.currentQuestion
         /\ r.previous_questions = variant.previousQuestions
         /\ r.previous_answers = variant.previousAnswers
         /\ Len(r.previous_questions) = variant.questionNumber - 1
         /\ Len(r.previous_answers) = variant.questionNumber - 1]_vars

\* C33: while a submitAnswer request is outstanding (issued, neither resolved
\* nor rejected), isSubmittingRef is true.
C33_InFlightFlagAccurate ==
  requests # <<>> => isSubmittingRef

\* C34: at most one delayed false-start restart is pending at any instant.
C34_OneRestartPending ==
  Len(restarts) <= 1

\* C35: whenever the status is recording, the connection the component
\* refers to is live and both the silence timeout and the countdown interval
\* are armed.
C35_RecordingMeansCapturing ==
  (mounted /\ status = "recording") =>
     /\ recognitionRef \in ConnIds
     /\ conns[recognitionRef].st = "live"
     /\ silenceTimeoutRef # Null
     /\ timerIntervalRef # Null

\* C36: no request carries an empty answer: whatever calls doSubmit, the
\* answer of a request that is issued is the trimmed transcript and is not
\* empty, and every answer in the history is not empty.
C36_NoEmptyAnswer ==
  [][/\ Len(requests') > Len(requests) =>
          /\ requests'[Len(requests')].current_answer = Trim(transcriptRef)
          /\ Trim(transcriptRef) # <<>>
     /\ \A i \in 1..Len(requests') :
          /\ requests'[i].current_answer # <<>>
          /\ \A j \in 1..Len(requests'[i].previous_answers) :
               requests'[i].previous_answers[j] # <<>>
     /\ \A i \in 1..Len(previousAnswersRef') : previousAnswersRef'[i] # <<>>]_vars

\* C36 witness: the silence timeout has submitted a transcript that ends in
\* the blank of a finalized fragment; the request of the second turn carries
\* the trimmed text, and the history holds the answer of the first turn.
C36_Witness ==
  /\ last = "SilenceSubmit"
  /\ transcriptRef = <<"a", " ">>
  /\ requests # <<>>
  /\ requests[Len(requests)].current_answer = <<"a">>
  /\ requests[Len(requests)].previous_answers # <<>>
  /\ previousAnswersRef # <<>>

====
